---- MODULE Spec2Model ----
(***************************************************************************)
(* ScratchDB (trie/utils/db.py): a dictionary of uncommitted changes       *)
(* (self.cache) in front of a wrapped key-value store (self.wrapped_db),   *)
(* with the context manager batch_commit() that flushes the cache into the *)
(* store when its body finishes without raising, and always clears it.     *)
(***************************************************************************)
EXTENDS Integers, Sequences, FiniteSets, TLC

\* ------------------------------------------------------------------ bounds
NumKeys == 2
NumVals == 2
\* How many batch_commit scopes a caller who nests them has open at most.
MaxDepth == 2

Keys == 1..NumKeys
Values == 1..NumVals

\* Python's None: the value __delitem__ stores and the default of
\* wrapped_db.get(key, None).  Never a member of Values.
None == 0

\* What the body of a scope can raise.  ValueError is an Exception, so the
\* "except Exception as exc" clause catches it; KeyboardInterrupt is a
\* BaseException only and passes the clause by.
BodyErrors == {"ValueError", "KeyboardInterrupt"}
IsException(e) == e = "ValueError"
\* What the wrapped store raises when one of its calls fails.
StoreError == "StoreError"
NoError == "NoError"

\* ------------------------------------------------------------ dictionaries
\* wrapped_db is a dict: a function whose domain is the set of its keys.
Dicts == UNION {[D -> Values] : D \in SUBSET Keys}

\* wrapped_db[key] = value
DbSetItem(db, key, value) ==
    [k \in (DOMAIN db) \cup {key} |-> IF k = key THEN value ELSE db[k]]

\* wrapped_db.pop(key, None)
DbPop(db, key) ==
    [k \in (DOMAIN db) \ {key} |-> db[k]]

\* wrapped_db.get(key, None)
DbGet(db, key) ==
    IF key \in DOMAIN db THEN db[key] ELSE None

\* key in wrapped_db
DbContains(db, key) ==
    key \in DOMAIN db

\* self.cache is a dict too, but batch_commit iterates over it, so its
\* insertion order is kept: a sequence of <<key, value>> items, one per key.
CacheKeys(c) == {c[i][1] : i \in 1..Len(c)}

\* key in self.cache
CacheHas(c, key) == key \in CacheKeys(c)

CacheIndex(c, key) == CHOOSE i \in 1..Len(c) : c[i][1] = key

\* self.cache[key]   (only evaluated when key in self.cache)
CacheGet(c, key) == c[CacheIndex(c, key)][2]

\* self.cache[key] = value: an existing key keeps its position, a new key
\* goes to the end.
CacheSetItem(c, key, value) ==
    IF CacheHas(c, key)
    THEN [c EXCEPT ![CacheIndex(c, key)] = <<key, value>>]
    ELSE Append(c, <<key, value>>)

VARIABLES
    wrapped_db,   \* self.wrapped_db
    cache,        \* self.cache
    scopes,       \* the batch_commit generators suspended at "yield", innermost last
    exited,       \* the scope exit that has just returned to the caller, if the last call was one
    lastWrite,    \* per key: the last __setitem__/__delitem__ since the cache was created or reset
    hist          \* what SpecHist remembers of the calls around the current scope

vars == <<wrapped_db, cache, scopes, exited, lastWrite, hist>>

NoWrite == <<"none", None>>
\* The last call was no scope exit.
NoExit == [op |-> "none"]
\* Nothing remembered.
NoTurn == <<"none", 0, None>>
NoHist == [entry_keys |-> {}, after_failed |-> FALSE, turned |-> NoTurn]

\* ------------------------------------------------------------- operations
\* ScratchDB.__init__
Init ==
    /\ wrapped_db \in Dicts
    /\ cache = <<>>
    /\ scopes = <<>>
    /\ exited = NoExit
    /\ lastWrite = [k \in Keys |-> NoWrite]
    /\ hist = NoHist

\* __getitem__ as it would be if the wrapped store were asked first.
getitemStoreFirst(key) ==
    IF DbContains(wrapped_db, key)
    THEN DbGet(wrapped_db, key)
    ELSE IF CacheHas(cache, key) THEN CacheGet(cache, key) ELSE None

\* ScratchDB.__getitem__
getitem(key) ==
    IF CacheHas(cache, key)
    THEN CacheGet(cache, key)
    ELSE DbGet(wrapped_db, key)

\* __contains__ as it would be if a cached None fell through to the store.
containsFallsThrough(key) ==
    IF CacheHas(cache, key) /\ CacheGet(cache, key) # None
    THEN TRUE
    ELSE DbContains(wrapped_db, key)

\* __contains__ as it would be if it never asked the wrapped store.
containsCacheOnly(key) ==
    CacheHas(cache, key) /\ CacheGet(cache, key) # None

\* ScratchDB.__contains__
contains(key) ==
    IF CacheHas(cache, key)
    THEN CacheGet(cache, key) # None
    ELSE DbContains(wrapped_db, key)

\* value = scratch[key]: returns getitem(key) and assigns nothing.
GetItem(key) ==
    /\ exited' = NoExit
    /\ UNCHANGED <<wrapped_db, cache, scopes, lastWrite>>

\* key in scratch: returns contains(key) and assigns nothing.
Contains(key) ==
    /\ exited' = NoExit
    /\ UNCHANGED <<wrapped_db, cache, scopes, lastWrite>>

\* __setitem__ as it would be if it rebuilt the cache around the new item.
setitemDropsOthers(c, key, value) == <<<<key, value>>>>

\* ScratchDB.__setitem__: no check of the value, None included.
setitem(c, key, value) == CacheSetItem(c, key, value)

SetItem(key, value) ==
    /\ cache' = setitem(cache, key, value)
    /\ exited' = NoExit
    /\ lastWrite' = [lastWrite EXCEPT ![key] = <<"set", value>>]
    /\ UNCHANGED <<wrapped_db, scopes>>

\* __delitem__ as it would be if deleting a key already deleted in the cache
\* dropped its entry.
delitemToggles(c, key) ==
    IF CacheHas(c, key) /\ CacheGet(c, key) = None
    THEN SelectSeq(c, LAMBDA it : it[1] # key)
    ELSE CacheSetItem(c, key, None)

\* __delitem__ as it would be if it left a pending value in place.
delitemKeepsSet(c, key) ==
    IF CacheHas(c, key) /\ CacheGet(c, key) # None
    THEN c
    ELSE CacheSetItem(c, key, None)

\* ScratchDB.__delitem__
delitem(c, key) == CacheSetItem(c, key, None)

DelItem(key) ==
    /\ cache' = delitem(cache, key)
    /\ exited' = NoExit
    /\ lastWrite' = [lastWrite EXCEPT ![key] = <<"del", None>>]
    /\ UNCHANGED <<wrapped_db, scopes>>

\* batch_commit as it would be if it began with an empty cache.
EnterScopeClears(do_deletes) ==
    /\ scopes = <<>>
    /\ scopes' = Append(scopes, [do_deletes |-> do_deletes, entry_db |-> wrapped_db])
    /\ cache' = <<>>
    /\ exited' = NoExit
    /\ UNCHANGED <<wrapped_db, lastWrite>>

\* with scratch.batch_commit(do_deletes=...): the generator runs to "yield".
\* The caller keeps to one open scope per instance.
EnterScope(do_deletes) ==
    /\ scopes = <<>>
    /\ scopes' = Append(scopes, [do_deletes |-> do_deletes, entry_db |-> wrapped_db])
    /\ exited' = NoExit
    /\ UNCHANGED <<wrapped_db, cache, lastWrite>>

\* The iteration as it would be with setdefault in place of the assignment.
FlushItemKeepsExisting(db, item, do_deletes) ==
    IF item[2] # None
    THEN IF DbContains(db, item[1]) THEN db ELSE DbSetItem(db, item[1], item[2])
    ELSE IF do_deletes
         THEN DbPop(db, item[1])
         ELSE db

\* The iteration as it would be if do_deletes were not tested.
FlushItemAlwaysDeletes(db, item, do_deletes) ==
    IF item[2] # None
    THEN DbSetItem(db, item[1], item[2])
    ELSE DbPop(db, item[1])

\* The iteration as it would be without the elif branch.
FlushItemNeverDeletes(db, item, do_deletes) ==
    IF item[2] # None
    THEN DbSetItem(db, item[1], item[2])
    ELSE db

\* One iteration of "for key, value in self.cache.items()" (lines 52-56).
FlushItem(db, item, do_deletes) ==
    IF item[2] # None
    THEN DbSetItem(db, item[1], item[2])
    ELSE IF do_deletes
         THEN DbPop(db, item[1])
         ELSE db

\* Whether that iteration calls the wrapped store at all: a None value under
\* do_deletes=False does not.
CallsStore(item, do_deletes) == item[2] # None \/ do_deletes

\* The first n iterations of the loop, in the order of the items.
RECURSIVE FlushPrefix(_, _, _, _)
FlushPrefix(db, items, do_deletes, n) ==
    IF n = 0
    THEN db
    ELSE FlushItem(FlushPrefix(db, items, do_deletes, n - 1), items[n], do_deletes)

\* The else clause as it would be if it rebuilt the store from the cache.
ElseClauseReplacesStore(db, items, do_deletes, failed_at, took) ==
    FlushPrefix([k \in {} |-> None], items, do_deletes,
                IF failed_at = 0 THEN Len(items) ELSE failed_at - 1)

\* The else clause as it would be if a failing store call undid the loop.
ElseClauseRollsBack(db, items, do_deletes, failed_at, took) ==
    IF failed_at = 0
    THEN FlushPrefix(db, items, do_deletes, Len(items))
    ELSE db

\* The "else" clause (lines 50-56).  failed_at = 0: no call of the store
\* raises and the loop runs to its end.  failed_at = f > 0: the store raises
\* in the call of iteration f; the iterations before it are done, the ones
\* after it never run, and the failing call itself has either changed the
\* store before raising (took) or not.
ElseClause(db, items, do_deletes, failed_at, took) ==
    IF failed_at = 0
    THEN FlushPrefix(db, items, do_deletes, Len(items))
    ELSE IF took
         THEN FlushPrefix(db, items, do_deletes, failed_at)
         ELSE FlushPrefix(db, items, do_deletes, failed_at - 1)

\* The except clause as it would be if it raised an error of its own.
ExceptClauseWraps(exc) == "RuntimeError"

\* The "except Exception as exc: raise exc" clause (lines 48-49): what leaves
\* the generator when exc is thrown into it at the yield.
ExceptClause(exc) == exc

\* The finally clause as it would be if it left the cache alone.
FinallyClauseKeeps(c) == c

\* The "finally" clause (lines 57-58): self.cache = {}
FinallyClause(c) == <<>>

\* The try statement as it would be if the loop stood in the finally clause.
TryStatementAlwaysFlushes(db, items, do_deletes, thrown, failed_at, took) ==
    ElseClause(db, items, do_deletes, failed_at, took)

\* The try statement of batch_commit (lines 46-56) as far as the wrapped
\* store goes: with an exception thrown in at the yield the else clause is
\* skipped, otherwise it runs.
TryStatement(db, items, do_deletes, thrown, failed_at, took) ==
    IF thrown # NoError
    THEN db
    ELSE ElseClause(db, items, do_deletes, failed_at, took)

Top == scopes[Len(scopes)]
Pop == SubSeq(scopes, 1, Len(scopes) - 1)

\* The body of the with block raises exc: contextlib throws it into the
\* generator at the yield.  The else clause is skipped, the finally clause
\* runs, and the exception that leaves the generator reaches the caller.
ExitOnRaise(exc) ==
    /\ scopes # <<>>
    /\ wrapped_db' = TryStatement(wrapped_db, cache, Top.do_deletes, exc, 0, FALSE)
    /\ cache' = FinallyClause(cache)
    /\ scopes' = Pop
    /\ exited' = [op |-> "exit", thrown |-> exc,
                  raised |-> IF IsException(exc) THEN ExceptClause(exc) ELSE exc,
                  do_deletes |-> Top.do_deletes, entry_db |-> Top.entry_db,
                  pre_cache |-> cache, failed_at |-> 0]
    /\ lastWrite' = [k \in Keys |-> NoWrite]

\* The body of the with block finishes: the generator is resumed after the
\* yield, runs the else clause and then the finally clause.
ExitOnReturn(failed_at, took) ==
    /\ scopes # <<>>
    /\ failed_at # 0 => CallsStore(cache[failed_at], Top.do_deletes)
    /\ wrapped_db' = TryStatement(wrapped_db, cache, Top.do_deletes, NoError, failed_at, took)
    /\ cache' = FinallyClause(cache)
    /\ scopes' = Pop
    /\ exited' = [op |-> "exit", thrown |-> NoError,
                  raised |-> IF failed_at = 0 THEN NoError ELSE StoreError,
                  do_deletes |-> Top.do_deletes, entry_db |-> Top.entry_db,
                  pre_cache |-> cache, failed_at |-> failed_at]
    /\ lastWrite' = [k \in Keys |-> NoWrite]

Next ==
    \/ \E k \in Keys : GetItem(k) /\ UNCHANGED hist
    \/ \E k \in Keys : Contains(k) /\ UNCHANGED hist
    \/ \E k \in Keys, v \in Values \cup {None} : SetItem(k, v) /\ UNCHANGED hist
    \/ \E k \in Keys : DelItem(k) /\ UNCHANGED hist
    \/ \E d \in BOOLEAN : EnterScope(d) /\ UNCHANGED hist
    \/ \E e \in BodyErrors : ExitOnRaise(e) /\ UNCHANGED hist
    \/ \E f \in 0..Len(cache), t \in BOOLEAN : ExitOnReturn(f, t) /\ UNCHANGED hist

Spec == Init /\ [][Next]_vars

\* The body of an open scope ends, by returning or by raising, and the calls
\* of the wrapped store it leads to return or raise: the generator is
\* resumed and runs to its end.
ExitScope ==
    \/ \E e \in BodyErrors : ExitOnRaise(e) /\ UNCHANGED hist
    \/ \E f \in 0..Len(cache), t \in BOOLEAN : ExitOnReturn(f, t) /\ UNCHANGED hist

\* Spec for callers whose scope bodies end.
FairSpec == Spec /\ WF_vars(ExitScope)

\* with scratch.batch_commit(...) inside the body of an open scope of the same
\* instance: batch_commit tests nothing on entry, so a second generator runs
\* to its yield like the first.
EnterInner(do_deletes) ==
    /\ scopes # <<>>
    /\ Len(scopes) < MaxDepth
    /\ scopes' = Append(scopes, [do_deletes |-> do_deletes, entry_db |-> wrapped_db])
    /\ exited' = NoExit
    /\ UNCHANGED <<wrapped_db, cache, lastWrite>>

\* Spec for callers who also open scopes inside scopes.
NextNested ==
    \/ Next
    \/ \E d \in BOOLEAN : EnterInner(d) /\ UNCHANGED hist

SpecNested == Init /\ [][NextNested]_vars

\* ---------------------------------------------------------------- SpecHist
\* The same calls, with hist keeping what the state of the program forgets:
\* which keys were pending when the open scope was entered, and whether the
\* call before that entry was the exit of a scope whose body raised with
\* entries pending. Reads change nothing of the program and are left out.
HistAfterWrite == IF scopes # <<>> THEN hist ELSE NoHist

HistAfterEnter ==
    [entry_keys |-> CacheKeys(cache),
     after_failed |-> exited.op = "exit" /\ exited.thrown # NoError /\ exited.pre_cache # <<>>,
     turned |-> NoTurn]

\* At an exit hist also keeps the writes made since the exit before it.
HistAfterExit ==
    [entry_keys |-> hist.entry_keys, after_failed |-> hist.after_failed,
     turned |-> hist.turned, issued |-> lastWrite]

\* Callers that keep to values other than None, on a store whose calls do
\* not raise.  A body that raises raises ValueError: the kind of the error
\* decides only whether the except clause is entered, which Spec covers.
NextHist ==
    \/ \E k \in Keys, v \in Values : SetItem(k, v) /\ hist' = HistAfterWrite
    \/ \E k \in Keys : DelItem(k) /\ hist' = HistAfterWrite
    \/ \E d \in BOOLEAN : EnterScope(d) /\ hist' = HistAfterEnter
    \/ ExitOnRaise("ValueError") /\ hist' = HistAfterExit
    \/ ExitOnReturn(0, FALSE) /\ hist' = HistAfterExit

SpecHist == Init /\ [][NextHist]_vars

\* ---------------------------------------------------------------- SpecTurn
\* Callers that write inside scopes only, so that every pending entry was
\* written in the open scope; hist keeps whether the last write of the scope
\* turned a pending key from a value to None ("set_del", with the value it
\* replaced) or from None to a value ("del_set").
Turned(key, value) ==
    IF CacheHas(cache, key)
    THEN IF CacheGet(cache, key) # None /\ value = None
         THEN <<"set_del", key, CacheGet(cache, key)>>
         ELSE IF CacheGet(cache, key) = None /\ value # None
         THEN <<"del_set", key, None>>
         ELSE NoTurn
    ELSE NoTurn

HistAfterTurn(key, value) == [hist EXCEPT !.turned = Turned(key, value)]

NextTurn ==
    \/ \E k \in Keys, v \in Values :
          scopes # <<>> /\ SetItem(k, v) /\ hist' = HistAfterTurn(k, v)
    \/ \E k \in Keys :
          scopes # <<>> /\ DelItem(k) /\ hist' = HistAfterTurn(k, None)
    \/ \E d \in BOOLEAN : EnterScope(d) /\ hist' = NoHist
    \/ ExitOnRaise("ValueError") /\ hist' = HistAfterExit
    \/ ExitOnReturn(0, FALSE) /\ hist' = HistAfterExit

SpecTurn == Init /\ [][NextTurn]_vars

\* ================================================================ claims
\* What the scope exit that has just returned looked like.
Exited == exited.op = "exit"
BodyRaised == Exited /\ exited.thrown # NoError
BodyReturned == Exited /\ exited.thrown = NoError
\* A normal exit: the body returned and no call of the store raised.
NormalExit == BodyReturned /\ exited.raised = NoError
\* The items that were pending when the exit began.
Pending == IF Exited THEN {exited.pre_cache[i] : i \in 1..Len(exited.pre_cache)} ELSE {}
\* The store at scope entry and now agree on key.
SameInStore(key) ==
    /\ DbContains(wrapped_db, key) <=> DbContains(exited.entry_db, key)
    /\ DbGet(wrapped_db, key) = DbGet(exited.entry_db, key)

\* C1: when the body of a scope has raised, the wrapped store after the exit
\* is, key for key, the store as it was at scope entry, for both values of
\* do_deletes and whatever was pending.
C1_RaiseLeavesStore ==
    BodyRaised => wrapped_db = exited.entry_db

\* A body raised with entries pending that a flush would have written.
C1_Witness ==
    /\ BodyRaised
    /\ \E it \in Pending : it[2] # None /\ DbGet(exited.entry_db, it[1]) # it[2]
    /\ \E it \in Pending : it[2] = None /\ DbContains(exited.entry_db, it[1]) /\ exited.do_deletes

\* C2 as stated: whenever the body has returned, every key whose pending
\* entry is a value holds that value in the store after the exit.
C2_BodyReturnedWritesValues ==
    BodyReturned =>
        \A it \in Pending : it[2] # None =>
            DbContains(wrapped_db, it[1]) /\ DbGet(wrapped_db, it[1]) = it[2]

\* C2 amended: when the body has returned and no call of the store has raised
\* during the flush, every key whose pending entry is a value holds that
\* value in the store after the exit.
C2_NormalExitWritesValues ==
    NormalExit =>
        \A it \in Pending : it[2] # None =>
            DbContains(wrapped_db, it[1]) /\ DbGet(wrapped_db, it[1]) = it[2]

\* A normal exit that overwrote one key's value and added a key the store
\* did not hold.
C2_Witness ==
    /\ NormalExit
    /\ \E it \in Pending :
          it[2] # None /\ DbContains(exited.entry_db, it[1]) /\ DbGet(exited.entry_db, it[1]) # it[2]
    /\ \E it \in Pending : it[2] # None /\ ~DbContains(exited.entry_db, it[1])

\* C3: after a normal exit with do_deletes=False, every key whose pending
\* entry was None is in the store exactly as it was at scope entry.
C3_DeletesIgnored ==
    (NormalExit /\ ~exited.do_deletes) =>
        \A it \in Pending : it[2] = None => SameInStore(it[1])

\* Store {a: v}, set(b, w), delete(a), do_deletes=False: the store ends with both.
C3_Witness ==
    /\ NormalExit /\ ~exited.do_deletes
    /\ \E a, b \in Keys :
          /\ a # b
          /\ <<a, None>> \in Pending /\ DbContains(exited.entry_db, a)
          /\ DbContains(wrapped_db, a)
          /\ \E it \in Pending : it[1] = b /\ it[2] # None /\ DbGet(wrapped_db, b) = it[2]

\* C4: after a normal exit with do_deletes=True, every key whose pending
\* entry was None is absent from the store, whether the store held it or not.
C4_DeletesApplied ==
    (NormalExit /\ exited.do_deletes) =>
        \A it \in Pending : it[2] = None => ~DbContains(wrapped_db, it[1])

\* A normal exit with do_deletes=True that deleted a key the store held and
\* one it never held.
C4_Witness ==
    /\ NormalExit /\ exited.do_deletes
    /\ \E a, b \in Keys :
          /\ <<a, None>> \in Pending /\ DbContains(exited.entry_db, a)
          /\ <<b, None>> \in Pending /\ ~DbContains(exited.entry_db, b)

\* C5: the cache is empty when any scope exit returns to the caller, whatever
\* the outcome, and it is emptied at no other time: it holds exactly the keys
\* written since it was created or last reset by an exit.
C5_CacheResetOnExit ==
    /\ Exited => cache = <<>>
    /\ CacheKeys(cache) = {k \in Keys : lastWrite[k] # NoWrite}

\* The store raised during the flush with entries before and after the
\* failing one, and the cache is empty.
C5_Witness ==
    /\ Exited /\ exited.raised = StoreError
    /\ exited.failed_at < Len(exited.pre_cache)
    /\ cache = <<>>

\* C6: from set(k, v) with v not None until the next set or delete of k or a
\* scope exit, get(k) is v and k is contained, whatever the store holds.
C6_ReadYourWrites ==
    \A k \in Keys :
        (lastWrite[k][1] = "set" /\ lastWrite[k][2] # None) =>
            getitem(k) = lastWrite[k][2] /\ contains(k)

\* A key set to a value while the store holds another value for it, and a
\* key set while the store has none.
C6_Witness ==
    /\ \E k \in Keys :
          /\ lastWrite[k][1] = "set" /\ lastWrite[k][2] # None
          /\ DbContains(wrapped_db, k) /\ wrapped_db[k] # lastWrite[k][2]
    /\ \E k \in Keys :
          /\ lastWrite[k][1] = "set" /\ lastWrite[k][2] # None
          /\ ~DbContains(wrapped_db, k)

\* C7: from delete(k) until the next set of k or a scope exit, get(k) is None
\* and k is not contained, even when the store holds k.
C7_DeleteShadowsStore ==
    \A k \in Keys :
        lastWrite[k][1] = "del" => getitem(k) = None /\ ~contains(k)

\* A key deleted in the cache that the store still holds.
C7_Witness ==
    \E k \in Keys : lastWrite[k][1] = "del" /\ DbContains(wrapped_db, k)

\* C8: set(key, None) is rejected before the cache is touched: the cache is
\* the same after the call as before.
C8_SetNoneRejected ==
    [][\A k \in Keys : SetItem(k, None) => cache' = cache]_vars

\* C9: the error the body raised is the error the caller of the scope gets:
\* not swallowed, not replaced.
C9_ErrorPropagatedUnchanged ==
    BodyRaised => exited.raised = exited.thrown

\* An Exception went through the except clause and reached the caller.
C9_Witness ==
    BodyRaised /\ IsException(exited.thrown) /\ exited.raised = exited.thrown

\* C10: right after any scope exit, and at any time for a key not written
\* since the cache was created or reset, get and contains answer what the
\* wrapped store answers.
C10_ReadsFallThrough ==
    \A k \in Keys :
        (Exited \/ lastWrite[k] = NoWrite) =>
            /\ getitem(k) = DbGet(wrapped_db, k)
            /\ contains(k) = DbContains(wrapped_db, k)

\* After an exit, a key whose delete was pending and not pushed is read from
\* the store again.
C10_Witness ==
    /\ Exited
    /\ \E k \in Keys : <<k, None>> \in Pending /\ DbContains(wrapped_db, k) /\ contains(k)

\* The step has set the pending entry of key to value and left every other
\* pending entry and the wrapped store as they were.
LocalTo(key, value) ==
    /\ wrapped_db' = wrapped_db
    /\ CacheHas(cache', key) /\ CacheGet(cache', key) = value
    /\ \A j \in Keys \ {key} :
          /\ CacheHas(cache', j) <=> CacheHas(cache, j)
          /\ CacheHas(cache, j) => CacheGet(cache', j) = CacheGet(cache, j)

\* C11: set and delete change the pending entry of their own key only and
\* never the wrapped store; the store changes only in the exit of a scope
\* whose body returned, never on get, contains, set, delete or scope entry.
C11_WritesAreLocal ==
    [][/\ \A k \in Keys, v \in Values \cup {None} : SetItem(k, v) => LocalTo(k, v)
       /\ \A k \in Keys : DelItem(k) => LocalTo(k, None)
       /\ \A k \in Keys : (GetItem(k) \/ Contains(k)) => wrapped_db' = wrapped_db
       /\ \A d \in BOOLEAN : EnterScope(d) => wrapped_db' = wrapped_db
       /\ wrapped_db' # wrapped_db =>
             (scopes # <<>> /\ exited'.op = "exit" /\ exited'.thrown = NoError)]_vars

\* Inside a scope a key has been set over an earlier pending entry while
\* another key is pending and the store holds neither of the two values.
C11_Witness ==
    /\ scopes # <<>>
    /\ \E k, j \in Keys :
          /\ k # j
          /\ lastWrite[k][1] = "set" /\ lastWrite[k][2] # None
          /\ DbGet(wrapped_db, k) # lastWrite[k][2]
          /\ lastWrite[j][1] = "del" /\ DbContains(wrapped_db, j)
          /\ CacheHas(cache, j) /\ CacheGet(cache, j) = None

\* The store now shows the effect of flushing item under do_deletes.
AppliedToStore(item, do_deletes) ==
    IF item[2] # None
    THEN DbContains(wrapped_db, item[1]) /\ DbGet(wrapped_db, item[1]) = item[2]
    ELSE IF do_deletes
         THEN ~DbContains(wrapped_db, item[1])
         ELSE SameInStore(item[1])

\* C12: when the store raises in a call of the flush, the caller gets that
\* error, every entry before the failing one is applied to the store, no
\* entry after it is, and the cache is empty all the same.
C12_NoRollback ==
    (BodyReturned /\ exited.failed_at > 0) =>
        /\ exited.raised = StoreError
        /\ cache = <<>>
        /\ \A i \in 1..Len(exited.pre_cache) :
              /\ i < exited.failed_at => AppliedToStore(exited.pre_cache[i], exited.do_deletes)
              /\ i > exited.failed_at => SameInStore(exited.pre_cache[i][1])

\* The store raised in the second call of a flush whose first call had
\* changed the store: that change is still there.
C12_Witness ==
    /\ BodyReturned /\ exited.failed_at = 2
    /\ exited.raised = StoreError
    /\ ~SameInStore(exited.pre_cache[1][1])
    /\ cache = <<>>

\* C19: whatever the outcome of a scope exit and the value of do_deletes, a
\* key with no pending entry when the exit began is in the store afterwards
\* exactly as it was before.
C19_FlushTouchesPendingOnly ==
    Exited =>
        \A k \in Keys \ CacheKeys(exited.pre_cache) : SameInStore(k)

\* An exit changed the store while a key without a pending entry sits in it.
C19_Witness ==
    /\ Exited
    /\ wrapped_db # exited.entry_db
    /\ \E k \in Keys \ CacheKeys(exited.pre_cache) : DbContains(wrapped_db, k)

\* The step is a normal exit of a scope: body returned, no store call raised.
NormalExitStep ==
    /\ scopes # <<>>
    /\ exited'.op = "exit"
    /\ exited'.thrown = NoError
    /\ exited'.raised = NoError

\* C20: a normal exit with do_deletes=True changes no answer of get or
\* contains, and leaves the store equal to what get answered before it; with
\* do_deletes=False the same holds for the keys whose pending entry is not None.
C20_CommitInvisibleToReaders ==
    [][NormalExitStep =>
          \A k \in Keys :
             (exited'.do_deletes \/ ~(CacheHas(cache, k) /\ CacheGet(cache, k) = None)) =>
                 /\ getitem(k)' = getitem(k)
                 /\ contains(k)' = contains(k)
                 /\ DbGet(wrapped_db', k) = getitem(k)]_vars

\* A normal exit with do_deletes=True that removed a key the store held and
\* wrote a value the store did not hold.
C20_Witness ==
    /\ NormalExit /\ exited.do_deletes
    /\ \E it \in Pending : it[2] = None /\ DbContains(exited.entry_db, it[1])
    /\ \E it \in Pending : it[2] # None /\ DbGet(exited.entry_db, it[1]) # it[2]

\* C18: delete(k) called again, with no set of k and no scope exit since the
\* last delete(k), changes nothing: cache, store and open scopes are the
\* same, so are all answers of get and contains, and so is the store a
\* commit would leave, for both values of do_deletes.
C18_DeleteIdempotent ==
    [][\A k \in Keys :
          (lastWrite[k][1] = "del" /\ DelItem(k)) =>
              /\ cache' = cache
              /\ wrapped_db' = wrapped_db
              /\ scopes' = scopes
              /\ \A j \in Keys : getitem(j)' = getitem(j) /\ contains(j)' = contains(j)
              /\ \A d \in BOOLEAN :
                    TryStatement(wrapped_db', cache', d, NoError, 0, FALSE)
                        = TryStatement(wrapped_db, cache, d, NoError, 0, FALSE)]_vars

\* A key the store holds, deleted in the cache after another key was set:
\* the state delete(k) leaves and in which it is called again.
C18_Witness ==
    \E k, j \in Keys :
        /\ k # j
        /\ lastWrite[k][1] = "del" /\ DbContains(wrapped_db, k)
        /\ getitem(k) = None /\ ~contains(k)
        /\ lastWrite[j][1] = "set" /\ CacheIndex(cache, j) < CacheIndex(cache, k)

\* The states of a scope, read off the generator: OPEN while it is suspended
\* at the yield; on resumption FAILED when an exception was thrown in and
\* COMMITTING when not; CLOSED once the exit has returned.
ScopeOpen == scopes # <<>>
ScopeClosed == Exited /\ scopes = <<>> /\ cache = <<>>
WentThrough == IF exited.thrown # NoError THEN "FAILED" ELSE "COMMITTING"

\* C17: an open scope is left only by its exit, which goes through FAILED
\* when the body raised and through COMMITTING when it returned; a scope
\* that went through FAILED has written nothing, the store is written only
\* in COMMITTING, and every open scope whose body ends reaches CLOSED with
\* an empty cache.
C17_ScopeStateMachine ==
    /\ [](Exited =>
            /\ ScopeClosed
            /\ WentThrough = "FAILED" <=> exited.raised \in BodyErrors
            /\ WentThrough = "FAILED" => wrapped_db = exited.entry_db)
    /\ [][(ScopeOpen /\ scopes' # scopes) => (exited'.op = "exit" /\ scopes' = <<>>)]_vars
    /\ [][wrapped_db' # wrapped_db =>
             (ScopeOpen /\ exited'.op = "exit" /\ exited'.thrown = NoError)]_vars
    /\ ScopeOpen ~> ScopeClosed

\* A scope that held pending entries went through COMMITTING, changed the
\* store and is CLOSED.
C17_Witness ==
    /\ ScopeClosed
    /\ WentThrough = "COMMITTING"
    /\ exited.pre_cache # <<>>
    /\ wrapped_db # exited.entry_db

\* C16: a second scope on an instance whose scope is open is rejected: two
\* scopes are never open at once, so no exit returns into the body of an
\* enclosing scope having flushed or cleared that scope's pending entries.
C16_OneScopeAtATime ==
    /\ (Exited /\ scopes # <<>>) =>
          (cache = exited.pre_cache /\ wrapped_db = exited.entry_db)
    /\ Len(scopes) <= 1

\* C13: what a scope whose body raised had pending is never applied to the
\* store, neither by that exit nor by the exit of any later scope: nothing
\* pending was written before the last exit, an exit leaves every key alone
\* that was not set or deleted since the exit before it, and the exit of a
\* scope whose body raised leaves the store as it was and the cache empty.
C13_DiscardedNeverApplied ==
    /\ \A i \in 1..Len(cache) :
          /\ lastWrite[cache[i][1]] # NoWrite
          /\ lastWrite[cache[i][1]][2] = cache[i][2]
    /\ Exited => \A k \in Keys : hist.issued[k] = NoWrite => SameInStore(k)
    /\ BodyRaised => (wrapped_db = exited.entry_db /\ cache = <<>>)

\* The scope entered right after a raising body had discarded entries has
\* exited normally and written a key, and another key, not written since,
\* is as it was.
C13_Witness ==
    /\ NormalExit
    /\ hist.after_failed
    /\ \E k \in Keys : ~SameInStore(k)
    /\ \E k \in Keys : hist.issued[k] = NoWrite /\ SameInStore(k)

\* C14: a scope starts with what the cache holds. What was set or deleted
\* since the last exit stays pending and is what get and contains answer,
\* outside a scope and inside; while a scope is open the keys pending at its
\* entry are still pending and the store is as it was at entry; a normal
\* exit applies every pending entry, those from before the entry and those
\* written in the scope alike; the exit of a raising body applies none and
\* leaves the cache empty.
C14_ScopeStartsWithCache ==
    /\ \A k \in Keys :
          lastWrite[k] # NoWrite =>
              /\ CacheHas(cache, k)
              /\ getitem(k) = lastWrite[k][2]
              /\ contains(k) <=> lastWrite[k][2] # None
    /\ ScopeOpen =>
          /\ hist.entry_keys \subseteq CacheKeys(cache)
          /\ wrapped_db = Top.entry_db
    /\ NormalExit =>
          /\ hist.entry_keys \subseteq CacheKeys(exited.pre_cache)
          /\ \A i \in 1..Len(exited.pre_cache) :
                AppliedToStore(exited.pre_cache[i], exited.do_deletes)
    /\ BodyRaised =>
          /\ hist.entry_keys \subseteq CacheKeys(exited.pre_cache)
          /\ wrapped_db = exited.entry_db
          /\ cache = <<>>

\* A normal exit has changed the store both for a key that was pending when
\* the scope was entered and for a key first written inside the scope.
C14_Witness ==
    /\ NormalExit
    /\ \E k \in hist.entry_keys : ~SameInStore(k)
    /\ \E k \in CacheKeys(exited.pre_cache) \ hist.entry_keys : ~SameInStore(k)

\* The calls of the store that the flush makes for key.
StoreCalls(items, do_deletes, key) ==
    Cardinality({i \in 1..Len(items) : items[i][1] = key /\ CallsStore(items[i], do_deletes)})

\* C15: the flush makes at most one call of the store per key and applies
\* the last set or delete of each key: a key set and then deleted in the
\* scope is flushed as a delete, so the store loses it when do_deletes is
\* true and keeps what it had at entry, not the set value, when it is
\* false; a key deleted and then set is flushed as the value set.
C15_LastEntryWins ==
    NormalExit =>
        /\ \A k \in Keys : StoreCalls(exited.pre_cache, exited.do_deletes, k) <= 1
        /\ \A k \in Keys :
              hist.issued[k] # NoWrite =>
                  AppliedToStore(<<k, hist.issued[k][2]>>, exited.do_deletes)
        /\ hist.turned[1] = "set_del" =>
              /\ hist.issued[hist.turned[2]] = <<"del", None>>
              /\ IF exited.do_deletes
                 THEN ~DbContains(wrapped_db, hist.turned[2])
                 ELSE SameInStore(hist.turned[2])
        /\ hist.turned[1] = "del_set" =>
              /\ hist.issued[hist.turned[2]][1] = "set"
              /\ DbContains(wrapped_db, hist.turned[2])
              /\ wrapped_db[hist.turned[2]] = hist.issued[hist.turned[2]][2]

\* A key the store holds was set to another value and then deleted in a scope
\* with do_deletes false, and after the normal exit the store holds for it
\* what it held at entry.
C15_Witness ==
    /\ NormalExit
    /\ ~exited.do_deletes
    /\ hist.turned[1] = "set_del"
    /\ DbContains(exited.entry_db, hist.turned[2])
    /\ exited.entry_db[hist.turned[2]] # hist.turned[3]
    /\ wrapped_db[hist.turned[2]] = exited.entry_db[hist.turned[2]]

====
